---- MODULE Spec2Model ----
(***************************************************************************)
(* A model of the pieces of logic the OGGM tutorial notebooks carry:       *)
(*                                                                         *)
(*  1. the calving-flux / ice-deformation reconciliation of the frontal    *)
(*     ablation case study (the second notebook stored in                  *)
(*     notebooks/10minutes/run_with_gcm.ipynb): the difference function    *)
(*     to_solve_default, the bounded minimisation, the two bracketed root  *)
(*     searches, and the task find_inversion_calving with its mu* clip;    *)
(*  2. the task perturbate_mb_params of                                     *)
(*     notebooks/tutorials/massbalance_perturbation.ipynb and the          *)
(*     mb_calib files it reads and writes.                                 *)
(*  3. the runs of the ice dynamics solver notebook (unnamed/part_002);    *)
(*  4. execute_entity_task with continue_on_error and the compiled         *)
(*     statistics of notebooks/tutorials/deal_with_errors.ipynb;           *)
(*  5. the temporary working directories the notebooks set and reset;      *)
(*  6. the projection loops of notebooks/10minutes/run_with_gcm.ipynb and  *)
(*     notebooks/tutorials/elevation_bands_vs_centerlines.ipynb;           *)
(*  7. the workflow that builds and publishes the book (unnamed/part_005). *)
(*                                                                         *)
(* Lengths (water depth, thickness, free board) live on an integer grid;   *)
(* the fifth root of Glen's flow law is the integer fifth root, so the     *)
(* difference function is integer valued and rises by at most one per grid *)
(* step: a rising sign change therefore passes through an exact zero, as   *)
(* the continuous function does.  Fluxes are kept in one unit (the factor  *)
(* 1e9 / SEC_IN_YEAR between the calving law and sia_thickness is a fixed  *)
(* change of unit and is folded into the glacier's creep constant).        *)
(***************************************************************************)
EXTENDS Integers, Sequences, FiniteSets, TLC

\* ------------------------------------------------------------------ bounds

\* Upper end of the water-depth grid: the grid image of the bound 1e4.
WdMax == 24

\* Largest thickness the integer fifth root is searched up to.
MaxThick == 30

\* Lower end of the water-depth grid: the grid image of the bound 1e-4.
WdMin == 0

\* Starting point of the minimisation, optimize.minimize(f, [1], ...).
X0 == 1

\* Denominator of calving_min_mu_star_frac (0.7 is 7 / FracDen).
FracDen == 10

\* What a raised ValueError of optimize.brentq leaves instead of a root.
ValueError == 0 - 1

\* ---------------------------------------------------------------- glaciers

\* A glacier directory as far as the reconciliation reads it: the free board
\* of the calving front (terminus height above the water level 0), the
\* frontal width, the creep constant that stands for 1 / ((rho g slope)^3 fd)
\* of the frontal slope, and the glacier-wide accumulation, which is the flux
\* the mass balance delivers to the front when there is no melt (mu* = 0).
Glaciers ==
    { [rgi_id |-> "RGI60-01.03622", free_board |-> 1, width |-> 1, creep |-> 10, prcp |-> 1000],
      [rgi_id |-> "RGI60-01.04375", free_board |-> 2, width |-> 2, creep |-> 20, prcp |-> 2400],
      [rgi_id |-> "RGI60-01.03377", free_board |-> 3, width |-> 1, creep |-> 50, prcp |-> 100000],
      [rgi_id |-> "RGI60-01.23642", free_board |-> 3, width |-> 1, creep |-> 2,  prcp |-> 500] }

NoGlacier == [rgi_id |-> "none", free_board |-> 0, width |-> 1, creep |-> 0, prcp |-> 0]

\* cfg.PARAMS['inversion_calving_k'] as the notebook sets it: 0.6, 2.4 and
\* 2.4 * 10, in tenths.
KValues == {6, 24, 240}

\* cfg.PARAMS['calving_min_mu_star_frac'] as the notebook sets it: 0 and 0.7,
\* in tenths.
FracValues == {0, 7}

WaterDepths == WdMin .. WdMax

\* ------------------------------------------------------------ pure functions

\* The integer fifth root: Glen's flow law with n = 3 relates the thickness
\* to the flux by a root of degree five.
IRoot5(q) == CHOOSE r \in 0 .. MaxThick : r^5 <= q /\ q < (r + 1)^5

\* The calving law q = k h d w (eq. 1) at a given water depth, with
\* h = d + E_t; the flux is zero while the ice does not reach the water.
calving_flux_from_depth(g, k, wd) ==
    [ thick       |-> wd + g.free_board,
      water_depth |-> wd,
      free_board  |-> g.free_board,
      flux        |-> IF wd > 0 THEN k * (wd + g.free_board) * wd * g.width ELSE 0 ]

\* The same law called with thick=...: the water depth is thick - E_t.
calving_flux_from_thick(g, k, thick) ==
    calving_flux_from_depth(g, k, thick - g.free_board)

\* Thickness the ice-deformation law gives for a flux through the front.
sia_thickness(g, flux) == IRoot5((flux \div g.width) * g.creep)

\* Difference in thicknesses: calving law minus ice deformation.
to_solve_default(g, k, wd) ==
    LET fl == calving_flux_from_depth(g, k, wd)
    IN  fl.thick - sia_thickness(g, fl.flux)

Sign(v) == IF v > 0 THEN 1 ELSE IF v < 0 THEN 0 - 1 ELSE 0

\* optimize.minimize(f, [x0], bounds=((lo, hi),)): a bounded descent that
\* steps to a lower neighbour while there is one and stops where there is
\* none (the gradient vanishes or the bound is active).
RECURSIVE Descend(_, _, _)
Descend(g, k, x) ==
    IF x < WdMax /\ to_solve_default(g, k, x + 1) < to_solve_default(g, k, x)
    THEN Descend(g, k, x + 1)
    ELSE IF x > WdMin /\ to_solve_default(g, k, x - 1) < to_solve_default(g, k, x)
    THEN Descend(g, k, x - 1)
    ELSE x

minimize(g, k) == Descend(g, k, X0)

\* The bracketing steps of optimize.brentq: keep the half of [a, b] over
\* which the sign changes; stop at a zero, or at the grid cell [a, a + 1]
\* that holds the crossing.
RECURSIVE Bisect(_, _, _, _)
Bisect(g, k, a, b) ==
    LET mid == (a + b) \div 2
    IN  IF to_solve_default(g, k, a) = 0 THEN a
        ELSE IF to_solve_default(g, k, b) = 0 THEN b
        ELSE IF b - a <= 1 THEN a
        ELSE IF to_solve_default(g, k, mid) = 0 THEN mid
        ELSE IF Sign(to_solve_default(g, k, a)) # Sign(to_solve_default(g, k, mid))
        THEN Bisect(g, k, a, mid)
        ELSE Bisect(g, k, mid, b)

\* A root search that answers with the lower end of its bracket.
brentq_lower_end(g, k, a, b) ==
    IF Sign(to_solve_default(g, k, a)) * Sign(to_solve_default(g, k, b)) > 0
    THEN ValueError
    ELSE a

\* optimize.brentq(f, a, b): ValueError unless f(a) and f(b) differ in sign.
brentq(g, k, a, b) ==
    IF Sign(to_solve_default(g, k, a)) * Sign(to_solve_default(g, k, b)) > 0
    THEN ValueError
    ELSE Bisect(g, k, a, b)

\* --------------------------------------------- mass balance and inversion

\* The temperature sensitivity mu* that closes the glacier's budget when the
\* front exports `flux`: accumulation minus melt equals the frontal flux, so
\* a larger calving flux leaves less melt (mu* is counted in units of melt,
\* i.e. times the glacier's positive-degree sum).
mu_star_calibration(g, flux) == g.prcp - flux

\* The frontal flux the mass balance delivers at a given mu*.
mass_balance_flux(g, mu) == g.prcp - mu

\* A floor that ignores calving_min_mu_star_frac.
min_mu_star_zero(g, frac) == 0

\* Floor of mu*: calving_min_mu_star_frac times the calving-free mu*.
min_mu_star(g, frac) == (frac * mu_star_calibration(g, 0)) \div FracDen

\* Frontal thickness of the mass-conservation inversion fed with `flux`.
mass_conservation_inversion(g, flux) == sia_thickness(g, flux)

\* The larger water depth at which both laws agree, as find_inversion_calving
\* seeks it: the zero between the absolute minimum and the upper bound.
inversion_opt(g, k) ==
    IF to_solve_default(g, k, minimize(g, k)) > 0
    THEN ValueError
    ELSE brentq(g, k, minimize(g, k), WdMax)

\* Does the calving-law solution ask for more ice than the mass balance can
\* deliver with mu* at its floor (or is there no solution at all)?
needs_clip(g, c) ==
    \/ inversion_opt(g, c.k) = ValueError
    \/ mu_star_calibration(g, calving_flux_from_depth(g, c.k, inversion_opt(g, c.k)).flux)
           < min_mu_star(g, c.frac)

\* Flux find_inversion_calving keeps: the calving-law flux at the retained
\* water depth, or the flux of the clipped mass balance.
inversion_flux(g, c) ==
    IF needs_clip(g, c)
    THEN mass_balance_flux(g, min_mu_star(g, c.frac))
    ELSE calving_flux_from_depth(g, c.k, inversion_opt(g, c.k)).flux

\* mu* find_inversion_calving leaves in local_mustar.
inversion_mu_star(g, c) ==
    IF needs_clip(g, c)
    THEN min_mu_star(g, c.frac)
    ELSE mu_star_calibration(g, inversion_flux(g, c))

\* Frontal thickness find_inversion_calving leaves in inversion_output: the
\* last inversion it runs is the one fed with the retained flux.
inversion_final_thick(g, c) == mass_conservation_inversion(g, inversion_flux(g, c))

\* The dictionary find_inversion_calving returns; the frontal thickness is
\* read back from the stored inversion output `stored`.
find_inversion_calving(g, c, stored) ==
    [ calving_flux        |-> inversion_flux(g, c),
      calving_law_flux    |-> calving_flux_from_thick(g, c.k, stored).flux,
      calving_front_thick |-> stored,
      calving_front_water_depth |-> stored - g.free_board ]

NoOut == [ calving_flux |-> 0, calving_law_flux |-> 0, calving_front_thick |-> 0,
           calving_front_water_depth |-> 0 ]

\* ------------------------------------------------------------------- state

VARIABLES
    gdir,          \* the glacier directory the kernel holds
    cfg,           \* cfg.PARAMS: [k, frac]
    abs_min,       \* abs_min['x'][0]
    root1,         \* "Optimum water depth 1"
    root2,         \* "Optimum water depth 2"
    opt,           \* the retained water depth
    out,           \* the last dictionary returned to the kernel
    inv_thick,     \* inversion_output[-1]['thick'][-1] of gdir
    local_mustar,  \* local_mustar['mu_star_glacierwide'] of gdir
    pc             \* the last cell run since gdir or cfg changed

calving_vars == <<gdir, cfg, abs_min, root1, root2, opt, out, inv_thick, local_mustar, pc>>

VARIABLES
    precal,        \* the parameters the calibration wrote for the glacier
    mb_calib,      \* the mb_calib files of the glacier directory, by filesuffix
    call           \* the arguments and outcome of the last perturbate_mb_params

perturb_vars == <<precal, mb_calib, call>>

VARIABLES
    params_evolution_model,  \* cfg.PARAMS['evolution_model'] of the solver notebook
    model_flowlines,         \* model_flowlines of gdir_eb and gdir_cl
    model_diagnostics,       \* model_diagnostics files, by directory and filesuffix
    last_run                 \* the last run_random_climate and how it ended

solver_vars == <<params_evolution_model, model_flowlines, model_diagnostics, last_run>>

VARIABLES
    err_params,    \* cfg.PARAMS: [border, continue_on_error]
    logs,          \* the log of every glacier directory
    task_call,     \* the execute_entity_task call in progress
    df_stats       \* the compiled glacier statistics

error_vars == <<err_params, logs, task_call, df_stats>>

VARIABLES
    tmp_dirs,      \* the temporary directories, by dirname
    kernels        \* every notebook's kernel: its position and what it last read

dir_vars == <<tmp_dirs, kernels>>

VARIABLES
    model_geometry,  \* model_geometry files, by directory and filesuffix
    proj_pc          \* the position in the projection loop

proj_vars == <<model_geometry, proj_pc>>

VARIABLES
    wf_run,        \* the workflow run in progress
    gh_pages,      \* what the gh-pages branch holds
    artifacts      \* the uploaded build artifacts

pages_vars == <<wf_run, gh_pages, artifacts>>

tutorial_vars == <<solver_vars, error_vars, dir_vars, proj_vars, pages_vars>>

vars == <<calving_vars, perturb_vars, tutorial_vars>>

\* ------------------------------------------------- mass-balance parameters

\* The four parameters of mb_calib.json a user can perturb.
Keys == {"bias", "melt_f", "prcp_fac", "temp_bias"}

\* The additive ones.
AdditiveKeys == {"bias", "melt_f", "temp_bias"}

ZeroParams == [k \in Keys |-> 0]

\* The precalibrated parameters of the two glaciers of the notebook.
Precalibrated ==
    { [bias |-> 0, melt_f |-> 5, prcp_fac |-> 3, temp_bias |-> 2],
      [bias |-> 1, melt_f |-> 4, prcp_fac |-> 2, temp_bias |-> 0] }

\* The file suffixes in use: the default file, the hand-written '_perturbed'
\* file and the file of one experiment of the loop.
Suffixes == {"", "_perturbed", "_0"}

\* A json file that has not been written.
NoFile == [exists |-> FALSE, p |-> ZeroParams, has_orig |-> FALSE, orig |-> ZeroParams]

\* The perturbation dictionaries handed to the task: one or two parameters,
\* additive offsets and precipitation factors, and a key that is not a
\* parameter.
Perturbations ==
    { ("bias" :> 1), ("melt_f" :> 2), ("melt_f" :> 0 - 1), ("temp_bias" :> 1),
      ("prcp_fac" :> 1), ("prcp_fac" :> 2),
      ("melt_f" :> 2) @@ ("prcp_fac" :> 2),
      ("temp_bias" :> 0 - 1) @@ ("ddf" :> 1) }

NoPerturbation == [k \in {} |-> 0]

NoCall == [ perturbation |-> NoPerturbation, reset_default |-> FALSE,
            filesuffix |-> "", read |-> ZeroParams, raised |-> FALSE, done |-> FALSE ]

\* The value a name of the kernel holds before its cell has run.
Unset == 0 - 2

\* ---------------------------------------------------- ice dynamics solvers

\* Number of flowlines of the centerline directory (main line and tributaries).
MaxFlowlines == 3

\* The two representations of the test glacier (Baltoro).
SolverGdirs == {"gdir_eb", "gdir_cl"}

EvolutionModels == {"FluxBased", "SemiImplicit"}

\* output_filesuffix of the runs.
RunSuffixes == {"_flux_based", "_semi_implicit"}

NoRun == [ gdir |-> "none", model |-> "none", filesuffix |-> "none",
           raised |-> "none", caught |-> FALSE, done |-> FALSE ]

\* The state of the kernel of the solver notebook after its set-up cell: one
\* trapezoidal flowline for the elevation bands, several flowlines of mixed
\* bed shapes for the centerlines, nothing run yet.
solvers_start ==
    /\ params_evolution_model = "SemiImplicit"
    /\ model_flowlines = [g \in SolverGdirs |->
          IF g = "gdir_eb" THEN [n |-> 1, trapezoid |-> TRUE]
          ELSE [n |-> MaxFlowlines, trapezoid |-> FALSE]]
    /\ model_diagnostics = [g \in SolverGdirs |-> [x \in RunSuffixes |-> "none"]]
    /\ last_run = NoRun

\* --------------------------------------------------------- errors in a run

\* How many execute_entity_task calls one set of directories sees.
MaxCalls == 2

\* rgi_ids of the notebook: the second one runs, the first one flows out of a
\* small domain, the third one failed at preprocessing.
rgi_ids == {"RGI60-11.00897", "RGI60-11.01450", "RGI60-11.03235"}

\* cfg.PARAMS['border'] as the notebook sets it.
Borders == {80, 160}

\* The log a pre-processed directory comes with.
prepro_log(g) ==
    IF g = "RGI60-11.03235"
    THEN << [task |-> "glacier_masks", error |-> "invalid geometry"] >>
    ELSE << >>

\* The error run_random_climate ends with on g, "None" when it goes through.
task_error(g, border) ==
    IF g = "RGI60-11.03235" THEN "is a nominal glacier"
    ELSE IF g = "RGI60-11.00897" /\ border = 80 THEN "Glacier exceeds domain boundaries"
    ELSE "None"

NoError == [task |-> "None", error |-> "None"]

\* gdir.get_error_log(): the first error of the log, if any.
get_error_log(log) ==
    IF \E i \in 1 .. Len(log) : log[i].error # "None"
    THEN log[CHOOSE i \in 1 .. Len(log) :
                /\ log[i].error # "None"
                /\ \A j \in 1 .. (i - 1) : log[j].error = "None"]
    ELSE NoError

\* The error columns of one row of glacier_statistics.csv.
glacier_statistics(log) ==
    [ error_task |-> get_error_log(log).task, error_msg |-> get_error_log(log).error ]

NoStats == [g \in rgi_ids |-> [error_task |-> "not compiled", error_msg |-> "not compiled"]]

NoTaskCall == [ state |-> "idle", continue_on_error |-> FALSE, ran |-> {}, failed |-> {}, n |-> 0 ]

\* The kernel after cfg.initialize: the default parameters, no directories.
errors_start ==
    /\ err_params = [border |-> 80, continue_on_error |-> FALSE]
    /\ logs = [exists |-> FALSE, border |-> 80, log |-> [g \in rgi_ids |-> << >>]]
    /\ task_call = NoTaskCall
    /\ df_stats = NoStats

\* ------------------------------------------------------------ start states

\* ------------------------------------------------------ working directories

\* Notebooks that set a working directory and read their directories back.
Notebooks ==
    {"run_with_gcm", "dynamical_spinup", "deal_with_errors",
     "massbalance_perturbation", "inversion"}

\* The dirname each notebook hands to utils.gettempdir.
working_dir(nb) ==
    CASE nb = "run_with_gcm"             -> "OGGM_gcm_run"
      [] nb = "dynamical_spinup"         -> "OGGM_gcm_run"
      [] nb = "deal_with_errors"         -> "OGGM_Errors"
      [] nb = "massbalance_perturbation" -> "OGGM-calib-pertubation"
      [] nb = "inversion"                -> "OGGM_Inversion"

\* Does the notebook ask for reset=True?
resets(nb) == nb # "inversion"

\* The first glacier each notebook initialises a directory for.
first_rgi_id(nb) ==
    CASE nb = "run_with_gcm"             -> "RGI60-15.03473"
      [] nb = "dynamical_spinup"         -> "RGI60-11.00897"
      [] nb = "deal_with_errors"         -> "RGI60-11.00897"
      [] nb = "massbalance_perturbation" -> "RGI60-11.00787"
      [] nb = "inversion"                -> "RGI60-11.03205"

Dirnames == {working_dir(nb) : nb \in Notebooks}

RgiIds == {first_rgi_id(nb) : nb \in Notebooks}

\* A temporary directory without glacier directories.
EmptyDir == [r \in RgiIds |-> "none"]

\* Before any notebook has run: empty temporary directories, fresh kernels.
dirs_start ==
    /\ tmp_dirs = [d \in Dirnames |-> EmptyDir]
    /\ kernels = [nb \in Notebooks |-> [pc |-> "start", read |-> "none"]]

\* ------------------------------------------------------------- projections

\* Largest glacier volume at the inventory date, in units of the model.
MaxVolume == 4

\* The three scenarios of the loops.
Scenarios == <<"ssp126", "ssp370", "ssp585">>

\* rid = f'_ISIMIP3b_{member}_{ssp}'
rid(ssp) == "_ISIMIP3b_" \o ssp

GeometrySuffixes == {"_historical"} \cup {rid(Scenarios[i]) : i \in 1 .. Len(Scenarios)}

\* The directories of the two notebooks with projection runs.
ProjectionGdirs(nb) ==
    IF nb = "run_with_gcm" THEN <<"RGI60-15.03473", "RGI60-15.03733">>
    ELSE <<"gdir_cl", "gdir_eb">>

AllProjectionGdirs ==
    {"RGI60-15.03473", "RGI60-15.03733", "gdir_cl", "gdir_eb"}

\* The inventory date, the end of the historical climate data and the end of
\* the scenario data.
Years == [rgi_date |-> 2003, historical |-> 2020, gcm_data |-> 2100]

NoGeometry == [exists |-> FALSE, ys |-> 0, s0 |-> 0, ye |-> 0, s1 |-> 0]

\* The volume lost over a run under each climate.
melt(climate) ==
    CASE climate = "climate_historical" -> 1
      [] climate = rid("ssp126") -> 1
      [] climate = rid("ssp370") -> 2
      [] climate = rid("ssp585") -> 3

\* The glacier at the end of a run that starts from volume s.
evolve(s, climate) == IF s > melt(climate) THEN s - melt(climate) ELSE 0

\* The last year of the climate file of a run.
end_year(climate) ==
    IF climate = "climate_historical" THEN Years.historical ELSE Years.gcm_data

\* The glacier a run starts from: the one of model_flowlines at the inventory
\* date, or the last one of the model_geometry file named by
\* init_model_filesuffix.
init_model(files, init_model_filesuffix) ==
    IF init_model_filesuffix = "None"
    THEN [y |-> Years.rgi_date, s |-> files.flowlines]
    ELSE [y |-> files.runs[init_model_filesuffix].ye,
          s |-> files.runs[init_model_filesuffix].s1]

\* The files of a directory after tasks.run_from_climate_data(gdir,
\* climate_input_filesuffix=..., init_model_filesuffix=...,
\* output_filesuffix=...); a run whose initial file is missing writes nothing.
run_from_climate_data(files, climate, init_model_filesuffix, output_filesuffix) ==
    IF init_model_filesuffix # "None" /\ ~files.runs[init_model_filesuffix].exists
    THEN files
    ELSE LET init == init_model(files, init_model_filesuffix)
         IN  [files EXCEPT !.runs[output_filesuffix] =
                 [exists |-> TRUE, ys |-> init.y, s0 |-> init.s,
                  ye |-> end_year(climate), s1 |-> evolve(init.s, climate)]]

\* A directory of pre-processing level 3: flowlines, no run yet.
level3(volume) == [flowlines |-> volume, runs |-> [x \in GeometrySuffixes |-> NoGeometry]]

\* A directory of pre-processing level 5: it comes with the historical run.
level5(volume) ==
    run_from_climate_data(level3(volume), "climate_historical", "None", "_historical")

\* The runs of the loop of each notebook, in the order of the loop: per
\* directory the historical run and then the scenarios, or per scenario the
\* directories.
loop(nb) ==
    LET gdirs == ProjectionGdirs(nb)
    IN  IF nb = "run_with_gcm"
        THEN [k \in 1 .. 6 |->
                [gdir |-> gdirs[((k - 1) % 2) + 1], run |-> rid(Scenarios[((k - 1) \div 2) + 1])]]
        ELSE [k \in 1 .. 8 |->
                [gdir |-> gdirs[((k - 1) \div 4) + 1],
                 run |-> IF (k - 1) % 4 = 0 THEN "_historical"
                         ELSE rid(Scenarios[(k - 1) % 4])]]

\* No notebook with projections has started.
projections_start ==
    /\ model_geometry = [g \in AllProjectionGdirs |-> level3(0)]
    /\ proj_pc = [nb |-> "none", todo |-> << >>]

\* --------------------------------------------------------- pages workflow

\* on: push / pull_request
Events == {"push", "pull_request"}

\* branches: of both triggers
Branches == {"master", "stable", "v1.5.3"}

\* The steps of the job build_pages, in order.
Steps ==
    << "Checkout", "Fix git permission check", "Cache", "Install Dependencies",
       "Build Book", "Upload Build Artifacts", "Push Book", "Shrink download cache" >>

\* ${GITHUB_REF##*/}: the branch of a push, "merge" for refs/pull/<n>/merge.
ref_name(event, branch) == IF event = "pull_request" THEN "merge" ELSE branch

NoWorkflowRun ==
    [ event |-> "none", branch |-> "none", step |-> 1, status |-> "none",
      built |-> FALSE, pushed |-> FALSE ]

\* No workflow run yet, nothing published, nothing uploaded.
pages_start ==
    /\ wf_run = NoWorkflowRun
    /\ gh_pages = {}
    /\ artifacts = {}

CalvingInit ==
    /\ gdir = NoGlacier
    /\ cfg = [k |-> 24, frac |-> 7]
    /\ abs_min = Unset
    /\ root1 = Unset
    /\ root2 = Unset
    /\ opt = Unset
    /\ out = NoOut
    /\ inv_thick = 0
    /\ local_mustar = 0
    /\ pc = "start"
    /\ precal = ZeroParams
    /\ mb_calib = [s \in Suffixes |-> NoFile]
    /\ call = NoCall
    /\ solvers_start /\ errors_start /\ dirs_start /\ projections_start /\ pages_start

\* ------------------------------------------------------------------- cells

\* What the kernel's names hold once gdir or cfg has changed: the values
\* computed for the previous glacier or parameters are dead, since every cell
\* that reads one of these names runs after the cell that assigns it again.
forget_results ==
    /\ abs_min' = Unset
    /\ root1' = Unset
    /\ root2' = Unset
    /\ opt' = Unset
    /\ out' = NoOut

\* cfg.initialize(); gdir = workflow.init_glacier_directories([rid],
\* from_prepro_level=3)[0]: the parameters return to their defaults and the
\* directory holds the inversion without calving (zero frontal flux).
init_glacier_directories(g) ==
    /\ gdir' = g
    /\ cfg' = [k |-> 24, frac |-> 7]
    /\ inv_thick' = mass_conservation_inversion(g, 0)
    /\ local_mustar' = mu_star_calibration(g, 0)
    /\ pc' = "gdir"
    /\ forget_results
    /\ UNCHANGED <<perturb_vars, tutorial_vars>>

\* cfg.PARAMS['inversion_calving_k'] = ...; cfg.PARAMS['calving_min_mu_star_frac'] = ...
set_params(k, frac) ==
    /\ pc # "start"
    /\ cfg' = [k |-> k, frac |-> frac]
    /\ pc' = "gdir"
    /\ forget_results
    /\ UNCHANGED <<gdir, inv_thick, local_mustar>>
    /\ UNCHANGED <<perturb_vars, tutorial_vars>>

\* One turn of the loop over prescribed frontal thicknesses: the calving-law
\* flux is fed to the mass balance and the inversion is run with it.
feed_flux_to_inversion(thick) ==
    LET fl == calving_flux_from_thick(gdir, cfg.k, thick)
    IN  /\ pc # "start"
        /\ fl.flux <= gdir.prcp
        /\ local_mustar' = mu_star_calibration(gdir, fl.flux)
        /\ inv_thick' = mass_conservation_inversion(gdir, fl.flux)
        /\ pc' = "gdir"
        /\ forget_results
        /\ UNCHANGED <<gdir, cfg>>
        /\ UNCHANGED <<perturb_vars, tutorial_vars>>

\* abs_min = optimize.minimize(to_solve_default, [1], bounds=((1e-4, 1e4), ))
absolute_minimum ==
    /\ pc \in {"gdir", "inverted", "tested"}
    /\ abs_min' = minimize(gdir, cfg.k)
    /\ pc' = "abs_min"
    /\ UNCHANGED <<gdir, cfg, root1, root2, opt, out, inv_thick, local_mustar>>
    /\ UNCHANGED <<perturb_vars, tutorial_vars>>

\* Both searches run below the minimiser.
optimum_water_depths_one_side ==
    /\ pc = "abs_min"
    /\ root1' = brentq(gdir, cfg.k, WdMin, abs_min)
    /\ root2' = IF root1' = ValueError THEN ValueError
                ELSE brentq(gdir, cfg.k, WdMin, abs_min)
    /\ pc' = IF root1' = ValueError \/ root2' = ValueError THEN "ValueError" ELSE "roots"
    /\ UNCHANGED <<gdir, cfg, abs_min, opt, out, inv_thick, local_mustar>>
    /\ UNCHANGED <<perturb_vars, tutorial_vars>>

\* print(... optimize.brentq(f, 1e-4, abs_min['x'][0]))
\* print(... optimize.brentq(f, abs_min['x'][0], 1e4))
\* The first ValueError ends the cell.
optimum_water_depths ==
    /\ pc = "abs_min"
    /\ root1' = brentq(gdir, cfg.k, WdMin, abs_min)
    /\ root2' = IF root1' = ValueError THEN ValueError
                ELSE brentq(gdir, cfg.k, abs_min, WdMax)
    /\ pc' = IF root1' = ValueError \/ root2' = ValueError THEN "ValueError" ELSE "roots"
    /\ UNCHANGED <<gdir, cfg, abs_min, opt, out, inv_thick, local_mustar>>
    /\ UNCHANGED <<perturb_vars, tutorial_vars>>

\* The smaller solution is kept.
retain_smaller ==
    /\ pc = "roots"
    /\ opt' = brentq(gdir, cfg.k, WdMin, abs_min)
    /\ pc' = IF opt' = ValueError THEN "ValueError" ELSE "opt"
    /\ UNCHANGED <<gdir, cfg, abs_min, root1, root2, out, inv_thick, local_mustar>>
    /\ UNCHANGED <<perturb_vars, tutorial_vars>>

\* opt = optimize.brentq(to_solve_default, abs_min['x'][0], 1e4)
retain_larger ==
    /\ pc = "roots"
    /\ opt' = brentq(gdir, cfg.k, abs_min, WdMax)
    /\ pc' = IF opt' = ValueError THEN "ValueError" ELSE "opt"
    /\ UNCHANGED <<gdir, cfg, abs_min, root1, root2, out, inv_thick, local_mustar>>
    /\ UNCHANGED <<perturb_vars, tutorial_vars>>

\* out = calving_flux_from_depth(gdir, water_depth=opt, water_level=0)
flux_at_opt ==
    /\ pc = "opt"
    /\ out' = LET fl == calving_flux_from_depth(gdir, cfg.k, opt)
              IN  [ calving_flux |-> fl.flux, calving_law_flux |-> fl.flux,
                    calving_front_thick |-> fl.thick,
                    calving_front_water_depth |-> fl.water_depth ]
    /\ pc' = "flux"
    /\ UNCHANGED <<gdir, cfg, abs_min, root1, root2, opt, inv_thick, local_mustar>>
    /\ UNCHANGED <<perturb_vars, tutorial_vars>>

\* The stored inversion is the one of the fresh, calving-free state.
run_find_inversion_calving_stale ==
    /\ pc # "start"
    /\ local_mustar' = inversion_mu_star(gdir, cfg)
    /\ inv_thick' = mass_conservation_inversion(gdir, 0)
    /\ out' = find_inversion_calving(gdir, cfg, inversion_final_thick(gdir, cfg))
    /\ pc' = "inverted"
    /\ UNCHANGED <<gdir, cfg, abs_min, root1, root2, opt>>
    /\ UNCHANGED <<perturb_vars, tutorial_vars>>

\* out = find_inversion_calving(gdir, water_level=0)
run_find_inversion_calving ==
    /\ pc # "start"
    /\ local_mustar' = inversion_mu_star(gdir, cfg)
    /\ inv_thick' = inversion_final_thick(gdir, cfg)
    /\ out' = find_inversion_calving(gdir, cfg, inv_thick')
    /\ pc' = "inverted"
    /\ UNCHANGED <<gdir, cfg, abs_min, root1, root2, opt>>
    /\ UNCHANGED <<perturb_vars, tutorial_vars>>

\* The two assertions of "Testing consistency".
consistent ==
    /\ calving_flux_from_thick(gdir, cfg.k, out.calving_front_thick).flux = out.calving_flux
    /\ inv_thick = out.calving_front_thick

testing_consistency ==
    /\ pc = "inverted"
    /\ pc' = IF consistent THEN "tested" ELSE "AssertionError"
    /\ UNCHANGED <<gdir, cfg, abs_min, root1, root2, opt, out, inv_thick, local_mustar>>
    /\ UNCHANGED <<perturb_vars, tutorial_vars>>

CalvingNext ==
    \/ \E g \in Glaciers : init_glacier_directories(g)
    \/ \E k \in KValues, frac \in FracValues : set_params(k, frac)
    \/ \E thick \in 0 .. MaxThick : feed_flux_to_inversion(thick)
    \/ absolute_minimum
    \/ optimum_water_depths
    \/ retain_larger
    \/ flux_at_opt
    \/ run_find_inversion_calving
    \/ testing_consistency

\* The file of the suffix is read when there is one.
read_suffixed(files, filesuffix) ==
    IF files[filesuffix].exists THEN files[filesuffix] ELSE files[""]

\* df = gdir.read_json('mb_calib'): the default file, whatever the suffix.
read_default(files, filesuffix) == files[""]

\* The current values are stored as the original ones on every call.
save_original_always(df) == [df EXCEPT !.has_orig = TRUE, !.orig = df.p]

\* if 'bias_orig' not in df: df[k + '_orig'] = df[k] for the four parameters.
save_original(df) ==
    IF df.has_orig THEN df
    ELSE [df EXCEPT !.has_orig = TRUE, !.orig = df.p]

\* A reset that restores nothing.
reset_params_noop(df) == df

\* if reset_default: df[k] = df[k + '_orig'] for the four parameters.
reset_params(df) == [df EXCEPT !.p = df.orig]

\* The perturbation is added to the value the file holds.
perturbed_value_accumulating(df, k, v) ==
    IF k = "prcp_fac" THEN df.orig[k] * v ELSE df.p[k] + v

\* The precipitation factor is perturbed additively like the others.
perturbed_value_all_additive(df, k, v) == df.orig[k] + v

\* One turn of the loop over perturbation.items().
perturbed_value(df, k, v) ==
    IF k = "prcp_fac" THEN df.orig[k] * v ELSE df.orig[k] + v

\* The loop over perturbation.items(): every key handed in is rewritten from
\* its original value, the others keep the value read from the file.
apply_perturbation(df, perturbation) ==
    [df EXCEPT !.p = [k \in Keys |->
        IF k \in DOMAIN perturbation
        THEN perturbed_value(df, k, perturbation[k])
        ELSE df.p[k]]]

\* gdir.write_json(df, 'mb_calib', filesuffix=filesuffix)
write_json(files, df, filesuffix) ==
    [files EXCEPT ![filesuffix] = [df EXCEPT !.exists = TRUE]]

\* InvalidParamsError for a key that is no parameter; a perturbation of None
\* without reset_default fails on .items().
raises(perturbation, has_perturbation, reset_default) ==
    /\ ~reset_default
    /\ \/ ~has_perturbation
       \/ \E k \in DOMAIN perturbation : k \notin Keys

\* The files after perturbate_mb_params(gdir, perturbation, reset_default,
\* filesuffix); nothing is written when the task raises.
files_after(files, perturbation, has_perturbation, reset_default, filesuffix) ==
    LET df == save_original(read_default(files, filesuffix))
    IN  IF raises(perturbation, has_perturbation, reset_default) THEN files
        ELSE IF reset_default THEN write_json(files, reset_params(df), filesuffix)
        ELSE write_json(files, apply_perturbation(df, perturbation), filesuffix)

PerturbInit ==
    /\ precal \in Precalibrated
    /\ mb_calib = [s \in Suffixes |->
                    IF s = "" THEN [exists |-> TRUE, p |-> precal,
                                    has_orig |-> FALSE, orig |-> ZeroParams]
                    ELSE NoFile]
    /\ call = NoCall
    /\ gdir = NoGlacier
    /\ cfg = [k |-> 24, frac |-> 7]
    /\ abs_min = Unset
    /\ root1 = Unset
    /\ root2 = Unset
    /\ opt = Unset
    /\ out = NoOut
    /\ inv_thick = 0
    /\ local_mustar = 0
    /\ pc = "start"
    /\ solvers_start /\ errors_start /\ dirs_start /\ projections_start /\ pages_start

\* params = gdir_hef.read_json('mb_calib'); params['melt_f'] = 7;
\* gdir_hef.write_json(params, 'mb_calib', filesuffix='_perturbed'),
\* the cell that precedes every call of the task.
write_perturbed_by_hand ==
    /\ ~call.done
    /\ mb_calib' = write_json(mb_calib,
                              [mb_calib[""] EXCEPT !.p = [@ EXCEPT !["melt_f"] = 7]],
                              "_perturbed")
    /\ UNCHANGED <<precal, call, calving_vars, tutorial_vars>>

\* perturbate_mb_params(gdir, perturbation=..., reset_default=..., filesuffix=...)
perturbate_mb_params(perturbation, has_perturbation, reset_default, filesuffix) ==
    /\ mb_calib' = files_after(mb_calib, perturbation, has_perturbation,
                               reset_default, filesuffix)
    /\ call' = [ perturbation |-> perturbation, reset_default |-> reset_default,
                 filesuffix |-> filesuffix,
                 read |-> read_default(mb_calib, filesuffix).p,
                 raised |-> raises(perturbation, has_perturbation, reset_default),
                 done |-> TRUE ]
    /\ UNCHANGED <<precal, calving_vars, tutorial_vars>>

PerturbNext ==
    \/ write_perturbed_by_hand
    \/ \E perturbation \in Perturbations, filesuffix \in {"", "_0"} :
          perturbate_mb_params(perturbation, TRUE, FALSE, filesuffix)
    \/ \E filesuffix \in {"", "_0"} :
          perturbate_mb_params(NoPerturbation, FALSE, TRUE, filesuffix)
    \/ \E filesuffix \in {"", "_0"} :
          perturbate_mb_params(NoPerturbation, FALSE, FALSE, filesuffix)

\* ------------------------------------------- ice dynamics solvers: cells

\* A model that takes any flowlines, as FluxBasedModel does.
any_flowlines_work(fls) == TRUE

\* The flowlines SemiImplicitModel works with: a single flowline, trapezoidal
\* all along.
semi_implicit_works(fls) == fls.n = 1 /\ fls.trapezoid

\* The exception the numerical model raises when it is built on fls.
model_raises(fls, model) ==
    IF model = "SemiImplicit" /\ ~semi_implicit_works(fls) THEN "ValueError" ELSE "none"

\* The model class a run uses: the evolution_model argument, or
\* cfg.PARAMS['evolution_model'] when the argument is left out.
model_used(evolution_model) ==
    IF evolution_model = "default" THEN params_evolution_model ELSE evolution_model

\* What tasks.run_random_climate(g, evolution_model=..., output_filesuffix=...)
\* leaves: the diagnostics file when the run went through, and the outcome.
run_outcome(g, evolution_model, output_filesuffix, caught) ==
    LET model  == model_used(evolution_model)
        raised == model_raises(model_flowlines[g], model)
    IN  /\ last_run' = [ gdir |-> g, model |-> model, filesuffix |-> output_filesuffix,
                         raised |-> raised, caught |-> caught /\ raised = "ValueError",
                         done |-> TRUE ]
        /\ model_diagnostics' =
             IF raised = "none"
             THEN [model_diagnostics EXCEPT ![g][output_filesuffix] = model]
             ELSE model_diagnostics

\* tasks.run_random_climate(gdir, evolution_model=..., output_filesuffix=...)
run_random_climate(g, evolution_model, output_filesuffix) ==
    /\ run_outcome(g, evolution_model, output_filesuffix, FALSE)
    /\ UNCHANGED <<params_evolution_model, model_flowlines>>
    /\ UNCHANGED <<calving_vars, perturb_vars, error_vars, dir_vars, proj_vars, pages_vars>>

\* with pytest.raises(ValueError): tasks.run_random_climate(gdir_cl,
\*     evolution_model=SemiImplicitModel, output_filesuffix='_semi_implicit')
with_pytest_raises ==
    /\ run_outcome("gdir_cl", "SemiImplicit", "_semi_implicit", TRUE)
    /\ UNCHANGED <<params_evolution_model, model_flowlines>>
    /\ UNCHANGED <<calving_vars, perturb_vars, error_vars, dir_vars, proj_vars, pages_vars>>

\* cfg.PARAMS['evolution_model'] = 'FluxBased'  # default is 'SemiImplicit'
set_evolution_model(model) ==
    /\ params_evolution_model' = model
    /\ UNCHANGED <<model_flowlines, model_diagnostics, last_run>>
    /\ UNCHANGED <<calving_vars, perturb_vars, error_vars, dir_vars, proj_vars, pages_vars>>

\* cfg.PARAMS['downstream_line_shape'] = 'parabola';
\* tasks.init_present_time_glacier(gdir_eb): the downstream line of the
\* elevation band flowline is no longer trapezoidal.
set_downstream_line_shape ==
    /\ model_flowlines' = [model_flowlines EXCEPT !["gdir_eb"].trapezoid = FALSE]
    /\ UNCHANGED <<params_evolution_model, model_diagnostics, last_run>>
    /\ UNCHANGED <<calving_vars, perturb_vars, error_vars, dir_vars, proj_vars, pages_vars>>

SolverInit ==
    /\ solvers_start
    /\ errors_start /\ dirs_start /\ projections_start /\ pages_start
    /\ gdir = NoGlacier
    /\ cfg = [k |-> 24, frac |-> 7]
    /\ abs_min = Unset
    /\ root1 = Unset
    /\ root2 = Unset
    /\ opt = Unset
    /\ out = NoOut
    /\ inv_thick = 0
    /\ local_mustar = 0
    /\ pc = "start"
    /\ precal = ZeroParams
    /\ mb_calib = [s \in Suffixes |-> NoFile]
    /\ call = NoCall

SolverNext ==
    \/ \E g \in SolverGdirs, m \in EvolutionModels \cup {"default"}, x \in RunSuffixes :
          run_random_climate(g, m, x)
    \/ with_pytest_raises
    \/ \E m \in EvolutionModels : set_evolution_model(m)
    \/ set_downstream_line_shape

\* --------------------------------------------------- errors in a run: cells

\* cfg.PARAMS['continue_on_error'] = ...
set_continue_on_error(b) ==
    /\ task_call.state # "running"
    /\ err_params' = [err_params EXCEPT !.continue_on_error = b]
    /\ UNCHANGED <<logs, task_call, df_stats>>
    /\ UNCHANGED <<calving_vars, perturb_vars, solver_vars, dir_vars, proj_vars, pages_vars>>

\* cfg.PARAMS['border'] = ...
set_border(b) ==
    /\ task_call.state # "running"
    /\ err_params' = [err_params EXCEPT !.border = b]
    /\ UNCHANGED <<logs, task_call, df_stats>>
    /\ UNCHANGED <<calving_vars, perturb_vars, solver_vars, dir_vars, proj_vars, pages_vars>>

\* utils.gettempdir / utils.mkdir(WORKING_DIR, reset=True);
\* gdirs = workflow.init_glacier_directories(rgi_ids, from_prepro_level=5, ...)
init_error_directories ==
    /\ task_call.state # "running"
    /\ logs' = [exists |-> TRUE, border |-> err_params.border,
                log |-> [g \in rgi_ids |-> prepro_log(g)]]
    /\ task_call' = NoTaskCall
    /\ UNCHANGED <<err_params, df_stats>>
    /\ UNCHANGED <<calving_vars, perturb_vars, solver_vars, dir_vars, proj_vars, pages_vars>>

\* workflow.execute_entity_task(tasks.run_random_climate, gdirs, ...) starts.
begin_execute_entity_task ==
    /\ logs.exists
    /\ task_call.state # "running"
    /\ task_call.n < MaxCalls
    /\ task_call' = [ state |-> "running", continue_on_error |-> err_params.continue_on_error,
                      ran |-> {}, failed |-> {}, n |-> task_call.n + 1 ]
    /\ UNCHANGED <<err_params, logs, df_stats>>
    /\ UNCHANGED <<calving_vars, perturb_vars, solver_vars, dir_vars, proj_vars, pages_vars>>

\* Every error stops the call, whatever the parameter says.
always_stops(continue_on_error, error) == error # "None"

\* Does the error of one glacier stop the call?  The entity task logs the
\* error and raises it again unless continue_on_error is set.
stops_call(continue_on_error, error) == error # "None" /\ ~continue_on_error

\* The task runs on one more directory of the call, in any order
\* (use_multiprocessing), and writes its outcome to the directory's log.
run_entity_task(g) ==
    /\ task_call.state = "running"
    /\ g \in rgi_ids \ task_call.ran
    /\ LET error == task_error(g, logs.border)
           ran   == task_call.ran \cup {g}
       IN  /\ logs' = [logs EXCEPT !.log[g] =
                          Append(@, [task |-> "flowline_model_run", error |-> error])]
           /\ task_call' = [task_call EXCEPT
                  !.ran = ran,
                  !.failed = IF error # "None" THEN @ \cup {g} ELSE @,
                  !.state = IF stops_call(task_call.continue_on_error, error) THEN "raised"
                            ELSE IF ran = rgi_ids THEN "completed"
                            ELSE "running"]
    /\ UNCHANGED <<err_params, df_stats>>
    /\ UNCHANGED <<calving_vars, perturb_vars, solver_vars, dir_vars, proj_vars, pages_vars>>

\* df_stats = utils.compile_glacier_statistics(gdirs)
compile_glacier_statistics ==
    /\ logs.exists
    /\ task_call.state \in {"completed", "raised", "compiled"}
    /\ df_stats' = [g \in rgi_ids |-> glacier_statistics(logs.log[g])]
    /\ task_call' = [task_call EXCEPT !.state = "compiled"]
    /\ UNCHANGED <<err_params, logs>>
    /\ UNCHANGED <<calving_vars, perturb_vars, solver_vars, dir_vars, proj_vars, pages_vars>>

ErrorInit ==
    /\ errors_start
    /\ solvers_start /\ dirs_start /\ projections_start /\ pages_start
    /\ gdir = NoGlacier
    /\ cfg = [k |-> 24, frac |-> 7]
    /\ abs_min = Unset
    /\ root1 = Unset
    /\ root2 = Unset
    /\ opt = Unset
    /\ out = NoOut
    /\ inv_thick = 0
    /\ local_mustar = 0
    /\ pc = "start"
    /\ precal = ZeroParams
    /\ mb_calib = [s \in Suffixes |-> NoFile]
    /\ call = NoCall

ErrorNext ==
    \/ \E b \in BOOLEAN : set_continue_on_error(b)
    \/ \E b \in Borders : set_border(b)
    \/ init_error_directories
    \/ begin_execute_entity_task
    \/ \E g \in rgi_ids : run_entity_task(g)
    \/ compile_glacier_statistics

\* ----------------------------------------------- working directories: cells

\* utils.gettempdir(dirname, reset=...): the directory of that name, emptied
\* when reset is asked for.
gettempdir(dirs, dirname, reset) ==
    IF reset THEN [dirs EXCEPT ![dirname] = EmptyDir] ELSE dirs

\* cfg.PATHS['working_dir'] = utils.gettempdir(...);
\* gdirs = workflow.init_glacier_directories(...): the notebook's glacier
\* directory is written into its working directory.
set_working_dir(nb) ==
    /\ kernels[nb].pc = "start"
    /\ tmp_dirs' = [gettempdir(tmp_dirs, working_dir(nb), resets(nb))
                        EXCEPT ![working_dir(nb)][first_rgi_id(nb)] = nb]
    /\ kernels' = [kernels EXCEPT ![nb].pc = "ready"]
    /\ UNCHANGED <<calving_vars, perturb_vars, solver_vars, error_vars, proj_vars, pages_vars>>

\* What a notebook finds when it reads its glacier directory back.
read_back(dirs, nb) ==
    LET writer == dirs[working_dir(nb)][first_rgi_id(nb)]
    IN  IF writer = nb THEN "own"
        ELSE IF writer = "none" THEN "missing"
        ELSE "foreign"

\* A later cell reads from the glacier directory (compile_run_output,
\* read_json, compile_glacier_statistics, ...).
read_directory(nb) ==
    /\ kernels[nb].pc \in {"ready", "read"}
    /\ nb # "dynamical_spinup"
    /\ kernels' = [kernels EXCEPT ![nb] = [pc |-> "read", read |-> read_back(tmp_dirs, nb)]]
    /\ UNCHANGED tmp_dirs
    /\ UNCHANGED <<calving_vars, perturb_vars, solver_vars, error_vars, proj_vars, pages_vars>>

DirsInit ==
    /\ dirs_start
    /\ solvers_start /\ errors_start /\ projections_start /\ pages_start
    /\ gdir = NoGlacier
    /\ cfg = [k |-> 24, frac |-> 7]
    /\ abs_min = Unset
    /\ root1 = Unset
    /\ root2 = Unset
    /\ opt = Unset
    /\ out = NoOut
    /\ inv_thick = 0
    /\ local_mustar = 0
    /\ pc = "start"
    /\ precal = ZeroParams
    /\ mb_calib = [s \in Suffixes |-> NoFile]
    /\ call = NoCall

DirsNext ==
    \/ \E nb \in Notebooks : set_working_dir(nb)
    \/ \E nb \in Notebooks : read_directory(nb)

\* ------------------------------------------------------ projections: cells

\* The scenario run without init_model_filesuffix: it starts from the
\* glacier of the inventory date.
run_scenario_from_inventory_date ==
    /\ proj_pc.todo # << >>
    /\ Head(proj_pc.todo).run # "_historical"
    /\ LET step == Head(proj_pc.todo)
       IN  model_geometry' = [model_geometry EXCEPT ![step.gdir] =
               run_from_climate_data(@, step.run, "None", step.run)]
    /\ proj_pc' = [proj_pc EXCEPT !.todo = Tail(@)]
    /\ UNCHANGED <<calving_vars, perturb_vars, solver_vars, error_vars, dir_vars, pages_vars>>

\* workflow.execute_entity_task(tasks.run_from_climate_data, [gdir],
\*                              output_filesuffix='_historical')
run_historical ==
    /\ proj_pc.todo # << >>
    /\ Head(proj_pc.todo).run = "_historical"
    /\ LET step == Head(proj_pc.todo)
       IN  model_geometry' = [model_geometry EXCEPT ![step.gdir] =
               run_from_climate_data(@, "climate_historical", "None", "_historical")]
    /\ proj_pc' = [proj_pc EXCEPT !.todo = Tail(@)]
    /\ UNCHANGED <<calving_vars, perturb_vars, solver_vars, error_vars, dir_vars, pages_vars>>

\* workflow.execute_entity_task(tasks.run_from_climate_data, gdirs,
\*     climate_filename='gcm_data', climate_input_filesuffix=rid,
\*     init_model_filesuffix='_historical', output_filesuffix=rid)
run_scenario ==
    /\ proj_pc.todo # << >>
    /\ Head(proj_pc.todo).run # "_historical"
    /\ LET step == Head(proj_pc.todo)
       IN  model_geometry' = [model_geometry EXCEPT ![step.gdir] =
               run_from_climate_data(@, step.run, "_historical", step.run)]
    /\ proj_pc' = [proj_pc EXCEPT !.todo = Tail(@)]
    /\ UNCHANGED <<calving_vars, perturb_vars, solver_vars, error_vars, dir_vars, pages_vars>>

\* The directories of one of the two notebooks after
\* init_glacier_directories: level 5 with its historical run for the GCM
\* notebook, level 3 for the flowline notebook; the loop is still to run.
ProjInit ==
    /\ \E nb \in {"run_with_gcm", "elevation_bands_vs_centerlines"},
          v1 \in 1 .. MaxVolume, v2 \in 1 .. MaxVolume :
          /\ proj_pc = [nb |-> nb, todo |-> loop(nb)]
          /\ model_geometry = [g \in AllProjectionGdirs |->
                LET v == IF g = ProjectionGdirs(nb)[1] THEN v1
                         ELSE IF g = ProjectionGdirs(nb)[2] THEN v2 ELSE 0
                IN  IF nb = "run_with_gcm" /\ v > 0 THEN level5(v) ELSE level3(v)]
    /\ solvers_start /\ errors_start /\ dirs_start /\ pages_start
    /\ gdir = NoGlacier
    /\ cfg = [k |-> 24, frac |-> 7]
    /\ abs_min = Unset
    /\ root1 = Unset
    /\ root2 = Unset
    /\ opt = Unset
    /\ out = NoOut
    /\ inv_thick = 0
    /\ local_mustar = 0
    /\ pc = "start"
    /\ precal = ZeroParams
    /\ mb_calib = [s \in Suffixes |-> NoFile]
    /\ call = NoCall

ProjNext ==
    \/ run_historical
    \/ run_scenario

\* --------------------------------------------------- pages workflow: steps

\* A push or a pull request to one of the branches starts a run of the job.
trigger(event, branch) ==
    /\ wf_run.status # "in_progress"
    /\ wf_run' = [ event |-> event, branch |-> branch, step |-> 1,
                   status |-> "in_progress", built |-> FALSE, pushed |-> FALSE ]
    /\ UNCHANGED <<gh_pages, artifacts>>
    /\ UNCHANGED <<calving_vars, perturb_vars, solver_vars, error_vars, dir_vars, proj_vars>>

\* A step without condition: it runs in every run.
unconditional(name, event) == TRUE

\* The "if:" of a step; a step without one runs whenever the steps before it
\* succeeded.
step_if(name, event) ==
    IF name = "Push Book" THEN event # "pull_request" ELSE TRUE

\* The run after its next step, run or skipped.
advance(run) ==
    [run EXCEPT !.step = @ + 1,
                !.status = IF run.step = Len(Steps) THEN "success" ELSE "in_progress"]

\* The next step of the job runs and succeeds, or is skipped by its "if:".
run_step ==
    /\ wf_run.status = "in_progress"
    /\ LET name == Steps[wf_run.step]
           runs == step_if(name, wf_run.event)
       IN  /\ wf_run' = [advance(wf_run) EXCEPT
                  !.built = @ \/ (runs /\ name = "Build Book"),
                  !.pushed = @ \/ (runs /\ name = "Push Book")]
           /\ artifacts' =
                IF runs /\ name = "Upload Build Artifacts"
                THEN artifacts \cup {[event |-> wf_run.event, branch |-> wf_run.branch]}
                ELSE artifacts
           /\ gh_pages' =
                IF runs /\ name = "Push Book"
                THEN gh_pages \cup {[event |-> wf_run.event,
                                     prefix |-> ref_name(wf_run.event, wf_run.branch)]}
                ELSE gh_pages
    /\ UNCHANGED <<calving_vars, perturb_vars, solver_vars, error_vars, dir_vars, proj_vars>>

\* The next step of the job runs and fails: the steps after it are skipped.
fail_step ==
    /\ wf_run.status = "in_progress"
    /\ step_if(Steps[wf_run.step], wf_run.event)
    /\ wf_run' = [wf_run EXCEPT !.status = "failure"]
    /\ UNCHANGED <<gh_pages, artifacts>>
    /\ UNCHANGED <<calving_vars, perturb_vars, solver_vars, error_vars, dir_vars, proj_vars>>

PagesInit ==
    /\ pages_start
    /\ solvers_start /\ errors_start /\ dirs_start /\ projections_start
    /\ gdir = NoGlacier
    /\ cfg = [k |-> 24, frac |-> 7]
    /\ abs_min = Unset
    /\ root1 = Unset
    /\ root2 = Unset
    /\ opt = Unset
    /\ out = NoOut
    /\ inv_thick = 0
    /\ local_mustar = 0
    /\ pc = "start"
    /\ precal = ZeroParams
    /\ mb_calib = [s \in Suffixes |-> NoFile]
    /\ call = NoCall

PagesNext ==
    \/ \E event \in Events, branch \in Branches : trigger(event, branch)
    \/ run_step
    \/ fail_step

\* ------------------------------------------------------------ specifications

\* The frontal ablation case study.
SpecCalving == CalvingInit /\ [][CalvingNext]_vars

\* The parameter perturbation experiments.
SpecPerturb == PerturbInit /\ [][PerturbNext]_vars

\* The ice dynamics solver notebook.
SpecSolver == SolverInit /\ [][SolverNext]_vars

\* The notebook on errors after a run.
SpecError == ErrorInit /\ [][ErrorNext]_vars

\* The notebooks run in any order and overlap.
SpecDirs == DirsInit /\ [][DirsNext]_vars

\* The projection loops.
SpecProj == ProjInit /\ [][ProjNext]_vars

\* The workflow that builds and publishes the book.
SpecPages == PagesInit /\ [][PagesNext]_vars

\* ------------------------------------------------- the reconciliation: claims

\* The difference function is positive at both ends of the domain and
\* negative in between: one sign change on each side of its minimum.
TwoSignChanges(g, k) ==
    /\ to_solve_default(g, k, WdMin) > 0
    /\ to_solve_default(g, k, WdMax) > 0
    /\ \E x \in WaterDepths : to_solve_default(g, k, x) < 0

\* The zeros above every water depth at which the difference is negative.
LargerZeros(g, k) ==
    { x \in WaterDepths :
        /\ to_solve_default(g, k, x) = 0
        /\ \A y \in WaterDepths : to_solve_default(g, k, y) < 0 => y < x }

\* The grid cells of the sign change below every negative water depth.
SmallerZeros(g, k) ==
    { x \in WaterDepths :
        /\ \A y \in WaterDepths : to_solve_default(g, k, y) < 0 => x < y
        /\ \/ to_solve_default(g, k, x) = 0
           \/ x < WdMax /\ to_solve_default(g, k, x + 1) < 0 }

\* C1: when the difference function has a sign change on each side of its
\* minimum, the retained water depth opt is a zero of the larger sign change
\* and not one of the smaller.
C1_LargerZeroRetained ==
    (pc \in {"opt", "flux"} /\ TwoSignChanges(gdir, cfg.k)) =>
        /\ opt \in LargerZeros(gdir, cfg.k)
        /\ opt \notin SmallerZeros(gdir, cfg.k)

C1_Witness ==
    /\ pc = "opt"
    /\ TwoSignChanges(gdir, cfg.k)
    /\ root1 \in SmallerZeros(gdir, cfg.k)
    /\ root1 < opt
    /\ cfg.k = 240

\* The feasible range holds no sign change: wherever the mass balance can
\* supply the calving-law flux with mu* at or above its floor, the difference
\* function is positive.
NoFeasibleSignChange(g, c) ==
    \A x \in WaterDepths :
        g.prcp - calving_flux_from_depth(g, c.k, x).flux >= (c.frac * g.prcp) \div FracDen
            => to_solve_default(g, c.k, x) > 0

C3_RootsAroundMinimiser ==
    /\ (root1 # Unset \/ root2 # Unset) => abs_min = minimize(gdir, cfg.k)
    /\ pc \in {"roots", "opt", "flux"} =>
          /\ WdMin <= root1 /\ root1 <= abs_min
          /\ abs_min <= root2 /\ root2 <= WdMax

C3_Witness ==
    /\ pc = "roots"
    /\ root1 < abs_min
    /\ abs_min < root2

\* C4 as claimed: after find_inversion_calving, the calving law at the
\* returned frontal thickness gives the returned calving flux.
C4_LawFluxEqualsReturnedFlux ==
    pc = "inverted" =>
        calving_flux_from_thick(gdir, cfg.k, out.calving_front_thick).flux = out.calving_flux

\* C4 as amended: the same, for the runs that leave mu* above its floor.
C4_LawFluxEqualsReturnedFluxUnclipped ==
    (pc = "inverted" /\ local_mustar > (cfg.frac * gdir.prcp) \div FracDen) =>
        calving_flux_from_thick(gdir, cfg.k, out.calving_front_thick).flux = out.calving_flux

C4_Witness ==
    /\ pc = "inverted"
    /\ local_mustar > (cfg.frac * gdir.prcp) \div FracDen
    /\ out.calving_flux > 0
    /\ out.calving_front_water_depth > 1

Perturbed == call.done /\ ~call.raised /\ ~call.reset_default

\* C6: whatever was written before, a call with perturbation {k: v} for an
\* additive parameter k leaves k = precalibrated k + v in the file it writes.
C6_AdditiveFromPrecalibrated ==
    Perturbed =>
        \A k \in DOMAIN call.perturbation \cap AdditiveKeys :
            mb_calib[call.filesuffix].p[k] = precal[k] + call.perturbation[k]

C6_Witness ==
    /\ Perturbed
    /\ call.filesuffix = ""
    /\ "melt_f" \in DOMAIN call.perturbation
    /\ call.read["melt_f"] # precal["melt_f"]
    /\ call.read["melt_f"] # mb_calib[""].p["melt_f"]

\* C7: whatever was written before, a call with perturbation {prcp_fac: v}
\* leaves prcp_fac = precalibrated prcp_fac * v: unchanged for v = 1, doubled
\* for v = 2.
C7_PrcpFacMultiplicative ==
    (Perturbed /\ "prcp_fac" \in DOMAIN call.perturbation) =>
        /\ mb_calib[call.filesuffix].p["prcp_fac"]
              = precal["prcp_fac"] * call.perturbation["prcp_fac"]
        /\ call.perturbation["prcp_fac"] = 1 =>
              mb_calib[call.filesuffix].p["prcp_fac"] = precal["prcp_fac"]
        /\ call.perturbation["prcp_fac"] = 2 =>
              mb_calib[call.filesuffix].p["prcp_fac"] = precal["prcp_fac"] + precal["prcp_fac"]

C7_Witness ==
    /\ Perturbed
    /\ call.filesuffix = ""
    /\ "prcp_fac" \in DOMAIN call.perturbation
    /\ call.perturbation["prcp_fac"] = 1
    /\ call.read["prcp_fac"] # precal["prcp_fac"]

\* C8: a call with reset_default=True leaves the four parameters of the file
\* it writes equal to the precalibrated ones.
C8_ResetRestoresPrecalibrated ==
    (call.done /\ call.reset_default) =>
        /\ ~call.raised
        /\ mb_calib[call.filesuffix].exists
        /\ mb_calib[call.filesuffix].p = precal

C8_Witness ==
    /\ call.done
    /\ call.reset_default
    /\ call.filesuffix = ""
    /\ \A k \in Keys : call.read[k] # precal[k]

\* C9: the *_orig entries of the default file, once stored, are the
\* precalibrated values, and no later call removes or changes them.
C9_OriginalsKept ==
    /\ [](mb_calib[""].has_orig => mb_calib[""].orig = precal)
    /\ [][mb_calib[""].has_orig =>
            (mb_calib[""].has_orig' /\ mb_calib[""].orig' = mb_calib[""].orig)]_vars

C9_Witness ==
    /\ mb_calib[""].has_orig
    /\ call.done
    /\ \A k \in Keys : call.read[k] # precal[k]
    /\ mb_calib[""].p # call.read

\* C10: a call with a file suffix leaves the default file and the files of
\* the other suffixes as they were, and what it writes starts from the
\* default file: the parameters it was not asked to perturb are those of the
\* default file, and the original values are the precalibrated ones.
C10_SuffixedCallFrame ==
    /\ []((call.done /\ ~call.raised /\ call.filesuffix # "") =>
            /\ mb_calib[call.filesuffix].orig = precal
            /\ \A k \in Keys :
                  (call.reset_default \/ k \in DOMAIN call.perturbation)
                  \/ mb_calib[call.filesuffix].p[k] = mb_calib[""].p[k])
    /\ [][(call'.done /\ call'.filesuffix # "") =>
            \A s \in Suffixes \ {call'.filesuffix} : mb_calib'[s] = mb_calib[s]]_vars

C10_Witness ==
    /\ Perturbed
    /\ call.filesuffix = "_0"
    /\ mb_calib[""].p # precal
    /\ mb_calib["_0"].p # mb_calib[""].p
    /\ \E k \in Keys \ DOMAIN call.perturbation :
          mb_calib["_0"].p[k] = mb_calib[""].p[k] /\ mb_calib[""].p[k] # precal[k]

\* --------------------------------------------- ice dynamics solvers: claims

\* C11: a random-climate run with the semi-implicit model on the directory
\* that uses centerlines (several flowlines) ends with ValueError, and leaves
\* no output of that model in the directory.
C11_SemiImplicitOnCenterlinesRaises ==
    /\ (last_run.done /\ last_run.gdir = "gdir_cl" /\ last_run.model = "SemiImplicit")
          => last_run.raised = "ValueError"
    /\ \A x \in RunSuffixes : model_diagnostics["gdir_cl"][x] # "SemiImplicit"

C11_Witness ==
    /\ last_run.done
    /\ last_run.gdir = "gdir_cl"
    /\ last_run.model = "SemiImplicit"
    /\ model_flowlines["gdir_cl"].n > 1
    /\ last_run.raised = "ValueError"
    /\ last_run.caught
    /\ model_diagnostics["gdir_cl"]["_flux_based"] = "FluxBased"

\* ------------------------------------------------- errors in a run: claims

\* C12: with continue_on_error set, an error of the task on one glacier
\* never stops the execute_entity_task call, which completes only once the
\* task has run on every glacier; and the statistics compiled after the call
\* have an error_task and an error_msg for exactly the glaciers that failed.
C12_ContinueOnError ==
    task_call.continue_on_error =>
        /\ task_call.state # "raised"
        /\ task_call.state \in {"completed", "compiled"} => task_call.ran = rgi_ids
        /\ task_call.state = "compiled" =>
              \A g \in rgi_ids :
                  /\ (df_stats[g].error_task # "None") <=> (g \in task_call.failed)
                  /\ (df_stats[g].error_msg # "None") <=> (g \in task_call.failed)

C12_Witness ==
    /\ task_call.continue_on_error
    /\ task_call.state = "compiled"
    /\ task_call.ran = rgi_ids
    /\ task_call.failed = {"RGI60-11.00897", "RGI60-11.03235"}
    /\ df_stats["RGI60-11.00897"].error_task = "flowline_model_run"
    /\ df_stats["RGI60-11.01450"].error_task = "None"

\* --------------------------------------------- working directories: claims

\* C13: no data flows between notebooks: whatever the order or overlap in
\* which the notebooks run, what a notebook reads from its working directory
\* is what it wrote there itself.
C13_NoDataFlowBetweenNotebooks ==
    \A nb \in Notebooks : kernels[nb].pc = "read" => kernels[nb].read = "own"

\* ------------------------------------------------------ projections: claims

\* C14: every scenario run of a directory was started when the historical
\* run of that directory was there, in the year the historical run ends and
\* from the glacier the historical run ends with.
C14_ScenarioStartsFromHistorical ==
    \A g \in AllProjectionGdirs :
        \A x \in GeometrySuffixes \ {"_historical"} :
            LET runs == model_geometry[g].runs
            IN  runs[x].exists =>
                    /\ runs["_historical"].exists
                    /\ runs[x].ys = runs["_historical"].ye
                    /\ runs[x].s0 = runs["_historical"].s1

C14_Witness ==
    /\ proj_pc.nb = "elevation_bands_vs_centerlines"
    /\ proj_pc.todo = << >>
    /\ \A g \in {"gdir_cl", "gdir_eb"} :
          /\ model_geometry[g].runs[rid("ssp585")].exists
          /\ model_geometry[g].runs[rid("ssp585")].s0 = model_geometry[g].runs["_historical"].s1
          /\ model_geometry[g].runs[rid("ssp585")].s0 # model_geometry[g].flowlines
          /\ model_geometry[g].runs[rid("ssp585")].s1 # model_geometry[g].runs[rid("ssp585")].s0

\* --------------------------------------------------- pages workflow: claims

\* C15: nothing on gh-pages was pushed by a run triggered by a pull request,
\* no step of such a run pushes, and a pull-request run that went through
\* has built the book and uploaded the artifacts without pushing.
C15_PublishOnlyOutsidePullRequests ==
    /\ \A p \in gh_pages : p.event # "pull_request"
    /\ wf_run.event = "pull_request" => ~wf_run.pushed
    /\ (wf_run.event = "pull_request" /\ wf_run.status = "success") =>
          /\ wf_run.built
          /\ [event |-> "pull_request", branch |-> wf_run.branch] \in artifacts

C15_Witness ==
    /\ wf_run.event = "pull_request"
    /\ wf_run.status = "success"
    /\ wf_run.built
    /\ [event |-> "pull_request", branch |-> wf_run.branch] \in artifacts
    /\ ~wf_run.pushed
    /\ gh_pages = {[event |-> "push", prefix |-> "master"]}

====
